---------------------------- MODULE Spec2Model ----------------------------
(***************************************************************************)
(* IdoLab (src/main.py): a turn-based text simulation.  The model follows  *)
(* the Python source: the dataclasses Trainee, Group, SongProject, Company,*)
(* Player and GameState are records, their methods are operators that      *)
(* return the mutated object together with the return value, and the main  *)
(* loop is a state machine over the single GameState instance `state`.     *)
(*                                                                         *)
(* Object references: Company.trainees is append-only, so a Trainee object *)
(* is identified by its index in the roster.  Group.members and            *)
(* Player.character hold such indices (the Python code holds references to *)
(* the same objects), and Company methods that take a Trainee or a Group   *)
(* take its index in Company.trainees or Company.groups.                   *)
(*                                                                         *)
(* Random draws: every random.randint(a, b) of the source is               *)
(* randint(a, b, u), where u is a parameter of the operator that draws; u  *)
(* ranges over Draws, which selects the end points of the range.           *)
(* random.random() is a parameter in thousandths (0..999).                 *)
(*                                                                         *)
(* Messages are the literal strings of the source; what an f-string        *)
(* interpolates is left out of the string (written <n>, <name>).           *)
(***************************************************************************)
EXTENDS Integers, Sequences, FiniteSets

\* Python's None, as a return value
None == "None"

Max(a, b) == IF a >= b THEN a ELSE b
Min(a, b) == IF a <= b THEN a ELSE b

Range(s) == {s[i] : i \in DOMAIN s}

\*-------------------------------------------------------------------------
\* Program constants
\*-------------------------------------------------------------------------
RecruitCost == 300
TrainingCost == 150
DefaultIntensity == 5
DaysPerMonth == 30
MonthsPerYear == 12
StartMoney == 5000
StartReputation == 10
BankruptcyLimit == 2000
TopActPopularity == 300
LastYear == 5
LegendReputation == 80
SensationPopularity == 200
SensationScore == 350
MaxFailures == 3
LateBloomerPopularity == 150
MonthlyBase == 220
SelfEvalBase == 210
YearStep == 10
NegativeBelow == 80
PositiveAbove == 920
CriticalBelow == 100
CriticalBonus == 30

\*-------------------------------------------------------------------------
\* Bounds of the model
\*-------------------------------------------------------------------------
\* turns of a session, after its opening, in which every menu choice and
\* every draw is open
ActiveTurns == 1
\* the clock-only specification stops after this year
MaxYear == 2

\*-------------------------------------------------------------------------
\* Draws and inputs
\*-------------------------------------------------------------------------
\* what a draw is made from: 0 selects the low end of a range, 1 the high end
Draws == {0, 1}
\* random.randint(a, b)
randint(a, b, u) == IF u = 0 THEN a ELSE b

\* random.random() in thousandths, around the thresholds the code compares with
EventRolls == {NegativeBelow - 1, NegativeBelow, 500, PositiveAbove, PositiveAbove + 1}
CriticalRolls == {CriticalBelow - 1, CriticalBelow}

\* random.sample(starter_names, 3): one representative sample (the outcomes
\* differ only by a renaming of the starters)
StarterSamples == {<<"Ara", "Min", "Jisu">>}
\* the draws of the starters' popularity
StarterDraws == {<<0, 1, 0>>}
\* the name typed at the start ("" is replaced by "Player")
PlayerNames == {""}
\* a name typed for a recruit (one a starter already has); "" is replaced
\* by the default name
RecruitNames == {"Ara", ""}
\* what the player types as training focus; "" is replaced by the default
Focuses == {"", "charisma", "acting"}
\* the picks typed for a debut, after int(): those that are no roster
\* position are dropped
DebutPicks == {<<>>, <<2, 3, 9>>, <<4>>}
Concepts == {"Fresh"}
Titles == {"Untitled"}
\* budgets safe_int_input accepts: the end points of each range
DebutBudgets == {100, 2000}
ReleaseBudgets == {100, 3000}
PromoBudgets == {50, 1500}

\*-------------------------------------------------------------------------
\* Trainee
\*-------------------------------------------------------------------------
NewTrainee(name) ==
  [name |-> name, vocal |-> 30, dance |-> 30, rap |-> 30, visual |-> 30,
   charisma |-> 30, stamina |-> 70, popularity |-> 10, relationship |-> 10,
   trainee_since |-> 1]

\* train without the floor of the stamina at 0
train_unfloored(self, stat, u_gain, u_drain) ==
  LET base_gain == randint(DefaultIntensity - 2, DefaultIntensity + 2, u_gain)
      t == [self EXCEPT !.stamina = self.stamina - randint(8, 12, u_drain)]
  IN  IF stat = "dance"
        THEN [self |-> [t EXCEPT !.dance = @ + base_gain],
              ret |-> "Dance training +<n>. Stamina -10 (approx)."]
        ELSE [self |-> [t EXCEPT !.vocal = @ + base_gain],
              ret |-> "Vocal training +<n>. Stamina -10 (approx)."]

\* Trainee.train, with the default intensity (no caller passes another)
train(self, stat, u_gain, u_drain) ==
  LET intensity == DefaultIntensity
      base_gain == randint(intensity - 2, intensity + 2, u_gain)
      t == [self EXCEPT !.stamina = Max(0, self.stamina - randint(8, 12, u_drain))]
      tail == " Stamina -10 (approx)."
  IN  IF stat = "vocal"
        THEN [self |-> [t EXCEPT !.vocal = @ + base_gain],
              ret |-> "Vocal training +<n>." \o tail]
      ELSE IF stat = "dance"
        THEN [self |-> [t EXCEPT !.dance = @ + base_gain],
              ret |-> "Dance training +<n>." \o tail]
      ELSE IF stat = "rap"
        THEN [self |-> [t EXCEPT !.rap = @ + base_gain],
              ret |-> "Rap training +<n>." \o tail]
      ELSE IF stat = "charisma"
        THEN [self |-> [t EXCEPT !.charisma = @ + base_gain],
              ret |-> "Charisma workshop +<n>." \o tail]
      ELSE IF stat = "visual"
        THEN [self |-> [t EXCEPT !.visual = @ + base_gain],
              ret |-> "Visual coaching +<n>." \o tail]
      ELSE [self |-> t, ret |-> "Training focused on fundamentals." \o tail]

\* Trainee.rest
rest(self, u) ==
  LET recovery == randint(10, 20, u)
  IN  [self |-> [self EXCEPT !.stamina = Min(100, self.stamina + recovery)],
       ret |-> "Rested and recovered <n> stamina."]

adjust_popularity(self, amount) ==
  [self EXCEPT !.popularity = Max(0, self.popularity + amount)]

adjust_relationship(self, amount) ==
  [self EXCEPT !.relationship = Max(0, Min(100, self.relationship + amount))]

score(self) == self.vocal + self.dance + self.rap + self.visual + self.charisma

\*-------------------------------------------------------------------------
\* Group (members: roster indices; `roster` is Company.trainees)
\*-------------------------------------------------------------------------
RECURSIVE SumScores(_, _)
SumScores(members, roster) ==
  IF members = <<>> THEN 0
  ELSE score(roster[Head(members)]) + SumScores(Tail(members), roster)

\* Group.calculate_power
calculate_power(self, roster, u) ==
  LET member_power == SumScores(self.members, roster) \div Max(Len(self.members), 1)
      chemistry_bonus == randint(0, 15, u)
  IN  member_power + chemistry_bonus

\* Group.debut_effect; the members are the roster's objects, so their
\* popularity changes in the roster
debut_effect(self, roster, budget, u_chemistry, u_swing) ==
  LET power == calculate_power(self, roster, u_chemistry)
      debut_pop == (power \div 5) + (budget \div 10) + randint(-10, 15, u_swing)
  IN  [self |-> [self EXCEPT !.popularity = @ + debut_pop],
       roster |-> [i \in DOMAIN roster |->
                     IF i \in Range(self.members)
                       THEN adjust_popularity(roster[i], debut_pop \div 2)
                       ELSE roster[i]],
       ret |-> debut_pop]

\*-------------------------------------------------------------------------
\* SongProject
\*-------------------------------------------------------------------------
\* outcome with the budget term subtracted
outcome_budget_subtracted(self, group_power, u_roll, critical_roll) ==
  LET roll == randint(-15, 25, u_roll)
      roll2 == IF critical_roll < CriticalBelow THEN roll + CriticalBonus ELSE roll
  IN  (group_power \div 3) - (self.budget \div 15) + roll2

\* SongProject.outcome; critical_roll is random.random()
outcome(self, group_power, u_roll, critical_roll) ==
  LET roll == randint(-15, 25, u_roll)
      critical == critical_roll < CriticalBelow
      roll2 == IF critical THEN roll + CriticalBonus ELSE roll
  IN  (group_power \div 3) + (self.budget \div 15) + roll2

\*-------------------------------------------------------------------------
\* Company
\*-------------------------------------------------------------------------
NewCompany(name) ==
  [name |-> name, money |-> StartMoney, reputation |-> StartReputation,
   trainees |-> <<>>, groups |-> <<>>, projects |-> <<>>]

\* Company.recruit_trainee
recruit_trainee(self, name, u_vocal, u_dance, u_rap) ==
  LET new == [NewTrainee(name) EXCEPT !.vocal = randint(20, 40, u_vocal),
                                      !.dance = randint(20, 40, u_dance),
                                      !.rap = randint(20, 40, u_rap)]
  IN  [self |-> [self EXCEPT !.trainees = Append(@, new),
                             !.money = @ - RecruitCost],
       ret |-> new]

\* schedule_training without the affordability check
schedule_training_unchecked(self, t, focus, u_gain, u_drain) ==
  LET r == train(self.trainees[t], focus, u_gain, u_drain)
  IN  [self |-> [self EXCEPT !.money = @ - TrainingCost, !.trainees[t] = r.self],
       ret |-> "Training scheduled for <name>. " \o r.ret \o " Company money -<n>."]

\* Company.schedule_training; t is the roster index of the trainee passed
schedule_training(self, t, focus, u_gain, u_drain) ==
  LET cost == TrainingCost
  IN  IF self.money < cost
        THEN [self |-> self, ret |-> "Not enough money for training."]
        ELSE LET r == train(self.trainees[t], focus, u_gain, u_drain)
             IN  [self |-> [self EXCEPT !.money = @ - cost, !.trainees[t] = r.self],
                  ret |-> "Training scheduled for <name>. " \o r.ret
                            \o " Company money -<n>."]

\* [t for t in self.trainees if t.name in names]
SelectByName(roster, names) ==
  SelectSeq([i \in DOMAIN roster |-> i], LAMBDA i : roster[i].name \in Range(names))

\* Company.plan_debut
plan_debut(self, names, concept, budget, u_chemistry, u_swing) ==
  IF self.money < budget
    THEN [self |-> self, ret |-> "Not enough money to plan debut."]
  ELSE LET selected == SelectByName(self.trainees, names)
       IN  IF selected = <<>>
             THEN [self |-> self, ret |-> "No valid trainees selected."]
           ELSE LET group == [name |-> "Project " \o concept, members |-> selected,
                              concept |-> concept, popularity |-> 0]
                    d == debut_effect(group, self.trainees, budget, u_chemistry, u_swing)
                IN  [self |-> [self EXCEPT !.groups = Append(@, d.self),
                                           !.money = @ - budget,
                                           !.trainees = d.roster,
                                           !.reputation = @ + (d.ret \div 10)],
                     ret |-> "Debuted group <name>! Popularity +<n>. Budget -<n>."]

\* Company.release_song; g is the index of the group passed
release_song(self, g, title, budget, u_chemistry, u_roll, critical_roll) ==
  IF self.money < budget
    THEN [self |-> self, ret |-> "Not enough funds for release."]
  ELSE LET project == [title |-> title, budget |-> budget, concept |-> "Bright"]
           power == calculate_power(self.groups[g], self.trainees, u_chemistry)
           result == outcome(project, power, u_roll, critical_roll)
       IN  [self |-> [self EXCEPT !.projects = Append(@, project),
                                  !.money = @ - budget,
                                  !.groups[g].popularity = @ + result,
                                  !.reputation = @ + Max(0, result \div 8)],
            ret |-> "Released '<title>'. Result +<n> popularity for <name>. Cost <n>."]

\* Company.promote
promote(self, g, budget, u) ==
  IF self.money < budget
    THEN [self |-> self, ret |-> "Not enough money for promotion."]
  ELSE LET gain == (budget \div 20) + randint(0, 10, u)
       IN  [self |-> [self EXCEPT !.money = @ - budget,
                                  !.groups[g].popularity = @ + gain,
                                  !.reputation = @ + (gain \div 3)],
            ret |-> "Promotions boost <name>'s popularity by <n>. Cost <n>."]

update_finances(self, amount) == [self EXCEPT !.money = @ + amount]

\*-------------------------------------------------------------------------
\* Player and GameState
\*-------------------------------------------------------------------------
\* Player.character is None: no roster index
NoCharacter == 0

NewGameState(player, company) ==
  [day |-> 1, month |-> 1, year |-> 1, player |-> player, company |-> company,
   trainee_failures |-> 0, message_log |-> <<>>]

\* self.player and self.player.role == "Trainee" and self.player.character
IsTraineeSession(self) ==
  self.player.role = "Trainee" /\ self.player.character # NoCharacter

\* self.player and self.player.role == "CEO" and self.company
IsCeoSession(self) == self.player.role = "CEO"

RECURSIVE Income(_)
\* sum(g.popularity // 2 for g in self.company.groups)
Income(groups) ==
  IF groups = <<>> THEN 0
  ELSE (Head(groups).popularity \div 2) + Income(Tail(groups))

\* monthly_evaluation that counts a failed evaluation twice
monthly_evaluation_counted_twice(self, u) ==
  IF IsTraineeSession(self)
    THEN LET c == self.player.character
             trainee == self.company.trainees[c]
             sc == score(trainee) + trainee.popularity
             threshold == MonthlyBase + self.year * YearStep
             penalty == randint(5, 10, u)
         IN  IF sc >= threshold
               THEN [self |-> [self EXCEPT !.company.trainees[c] =
                                 adjust_popularity(adjust_relationship(trainee, 5), 5)],
                     ret |-> "Monthly evaluation passed! Score <n> / <n>. Relationship +5."]
               ELSE [self |-> [self EXCEPT !.trainee_failures = @ + 2,
                                           !.company.trainees[c] =
                                              adjust_relationship(trainee, 0 - penalty)],
                     ret |-> "Evaluation failed. Score <n> / <n>. Relationship -<n>."]
    ELSE LET income == Income(self.company.groups)
         IN  [self |-> [self EXCEPT !.company = update_finances(@, income)],
              ret |-> "Monthly income report: earned <n> from active groups."]

\* GameState.monthly_evaluation.  player and company are set by
\* initialize_game, so the closing branch (no company) is not modelled.
monthly_evaluation(self, u) ==
  IF IsTraineeSession(self)
    THEN LET c == self.player.character
             trainee == self.company.trainees[c]
             sc == score(trainee) + trainee.popularity
             threshold == MonthlyBase + self.year * YearStep
             penalty == randint(5, 10, u)
         IN  IF sc >= threshold
               THEN [self |-> [self EXCEPT !.company.trainees[c] =
                                 adjust_popularity(adjust_relationship(trainee, 5), 5)],
                     ret |-> "Monthly evaluation passed! Score <n> / <n>. Relationship +5."]
               ELSE [self |-> [self EXCEPT !.trainee_failures = @ + 1,
                                           !.company.trainees[c] =
                                              adjust_relationship(trainee, 0 - penalty)],
                     ret |-> "Evaluation failed. Score <n> / <n>. Relationship -<n>."]
    ELSE LET income == Income(self.company.groups)
         IN  [self |-> [self EXCEPT !.company = update_finances(@, income)],
              ret |-> "Monthly income report: earned <n> from active groups."]

\* advance_day that leaves the month at 13 when the year turns
advance_day_month_kept(self, u) ==
  LET s1 == [self EXCEPT !.day = @ + 1]
  IN  IF s1.day > DaysPerMonth
        THEN LET s2 == [s1 EXCEPT !.day = 1, !.month = @ + 1]
                 s3 == IF s2.month > MonthsPerYear
                         THEN [s2 EXCEPT !.year = @ + 1]
                         ELSE s2
                 e == monthly_evaluation(s3, u)
             IN  [e.self EXCEPT !.message_log = Append(@, e.ret)]
        ELSE s1

\* advance_day that evaluates at a month rollover but not at the year rollover
advance_day_no_evaluation_at_year_end(self, u) ==
  LET s1 == [self EXCEPT !.day = @ + 1]
  IN  IF s1.day > DaysPerMonth
        THEN LET s2 == [s1 EXCEPT !.day = 1, !.month = @ + 1]
                 e == monthly_evaluation(s2, u)
             IN  IF s2.month > MonthsPerYear
                   THEN [s2 EXCEPT !.month = 1, !.year = @ + 1]
                   ELSE [e.self EXCEPT !.message_log = Append(@, e.ret)]
        ELSE s1

\* advance_day that evaluates before it turns the year
advance_day_evaluation_before_year(self, u) ==
  LET s1 == [self EXCEPT !.day = @ + 1]
  IN  IF s1.day > DaysPerMonth
        THEN LET s2 == [s1 EXCEPT !.day = 1, !.month = @ + 1]
                 e == monthly_evaluation(s2, u)
                 s3 == [e.self EXCEPT !.message_log = Append(@, e.ret)]
             IN  IF s3.month > MonthsPerYear
                   THEN [s3 EXCEPT !.month = 1, !.year = @ + 1]
                   ELSE s3
        ELSE s1

\* GameState.advance_day; u is the draw of the monthly evaluation
advance_day(self, u) ==
  LET s1 == [self EXCEPT !.day = @ + 1]
  IN  IF s1.day > DaysPerMonth
        THEN LET s2 == [s1 EXCEPT !.day = 1, !.month = @ + 1]
                 s3 == IF s2.month > MonthsPerYear
                         THEN [s2 EXCEPT !.month = 1, !.year = @ + 1]
                         ELSE s2
                 e == monthly_evaluation(s3, u)
             IN  [e.self EXCEPT !.message_log = Append(@, e.ret)]
        ELSE s1

\* the CEO's verdict with the hit checked before the bankruptcy
ceo_verdict_hit_first(self) ==
  LET co == self.company
  IN  IF \E i \in DOMAIN co.groups : co.groups[i].popularity >= TopActPopularity
        THEN "Success! One of your groups became a top act."
      ELSE IF co.money < 0 - BankruptcyLimit
        THEN "Bankruptcy! Your company could not pay its bills."
      ELSE IF self.year > LastYear
        THEN IF co.reputation < LegendReputation
               THEN "Time's up. The industry moved on before you produced a hit."
               ELSE "Legendary CEO!"
      ELSE None

\* GameState.check_victory_or_defeat, the CEO conditions
ceo_verdict(self) ==
  LET co == self.company
  IN  IF co.money < 0 - BankruptcyLimit
        THEN "Bankruptcy! Your company could not pay its bills."
      ELSE IF \E i \in DOMAIN co.groups : co.groups[i].popularity >= TopActPopularity
        THEN "Success! One of your groups became a top act."
      ELSE IF self.year > LastYear
        THEN IF co.reputation < LegendReputation
               THEN "Time's up. The industry moved on before you produced a hit."
               ELSE "Legendary CEO!"
      ELSE None

\* the trainee's verdict with the failures checked before the win
trainee_verdict_cut_first(self) ==
  LET trainee == self.company.trainees[self.player.character]
  IN  IF self.trainee_failures >= MaxFailures
        THEN "You were cut after repeated failed evaluations."
      ELSE IF trainee.popularity >= SensationPopularity /\ score(trainee) >= SensationScore
        THEN "You debuted and became a sensation!"
      ELSE IF self.year > LastYear
        THEN IF trainee.popularity < LateBloomerPopularity
               THEN "The window closed before you could debut."
               ELSE "Late bloomer debut success!"
      ELSE None

\* the trainee's verdict with the year limit applied a year late
trainee_verdict_limit_late(self) ==
  LET trainee == self.company.trainees[self.player.character]
  IN  IF trainee.popularity >= SensationPopularity /\ score(trainee) >= SensationScore
        THEN "You debuted and became a sensation!"
      ELSE IF self.trainee_failures >= MaxFailures
        THEN "You were cut after repeated failed evaluations."
      ELSE IF self.year > LastYear + 1
        THEN IF trainee.popularity < LateBloomerPopularity
               THEN "The window closed before you could debut."
               ELSE "Late bloomer debut success!"
      ELSE None

\* GameState.check_victory_or_defeat, the Trainee conditions
trainee_verdict(self) ==
  LET trainee == self.company.trainees[self.player.character]
  IN  IF trainee.popularity >= SensationPopularity /\ score(trainee) >= SensationScore
        THEN "You debuted and became a sensation!"
      ELSE IF self.trainee_failures >= MaxFailures
        THEN "You were cut after repeated failed evaluations."
      ELSE IF self.year > LastYear
        THEN IF trainee.popularity < LateBloomerPopularity
               THEN "The window closed before you could debut."
               ELSE "Late bloomer debut success!"
      ELSE None

\* GameState.check_victory_or_defeat: a CEO block that returns nothing falls
\* through to the Trainee block
check_victory_or_defeat(self) ==
  IF IsCeoSession(self) /\ ceo_verdict(self) # None THEN ceo_verdict(self)
  ELSE IF IsTraineeSession(self) THEN trainee_verdict(self)
  ELSE None

\* initialize_game: typed is the name entered, sample is
\* random.sample(starter_names, 3), u_pops the draws of the starters' popularity
initialize_game(typed, role, sample, u_pops) ==
  LET name == IF typed = "" THEN "Player" ELSE typed
      starters == [i \in 1..3 |->
                     [NewTrainee(sample[i]) EXCEPT !.popularity = randint(5, 20, u_pops[i])]]
      me == [NewTrainee(name) EXCEPT !.vocal = 35, !.dance = 35, !.rap = 30,
                                     !.charisma = 35, !.visual = 35, !.stamina = 80]
      company == [NewCompany("IdoLab Entertainment") EXCEPT
                    !.trainees = IF role = "Trainee" THEN Append(starters, me)
                                 ELSE starters]
      player == [name |-> name, role |-> role,
                 character |-> IF role = "Trainee" THEN Len(company.trainees)
                               ELSE NoCharacter]
  IN  NewGameState(player, company)

\*-------------------------------------------------------------------------
\* Random events
\*-------------------------------------------------------------------------
\* max(groups, key=lambda g: g.popularity): the first group of highest popularity
TopGroup(groups) ==
  CHOOSE i \in DOMAIN groups :
    /\ \A j \in DOMAIN groups : groups[j].popularity <= groups[i].popularity
    /\ \A j \in 1..(i - 1) : groups[j].popularity < groups[i].popularity

\* random_event whose positive branch pays a CEO who has no group
random_event_bonus_without_group(self, roll, u) ==
  LET c == self.player.character
      quiet == [self |-> self, ret |-> None]
  IN  IF roll < NegativeBelow
        THEN IF self.player.role = "CEO"
               THEN [self |-> [self EXCEPT !.company.money = @ - randint(200, 800, u)],
                     ret |-> "Unexpected venue cancellation. Lost <n> in fees."]
               ELSE [self |-> [self EXCEPT !.company.trainees[c].stamina =
                                 Max(0, @ - randint(5, 15, u))],
                     ret |-> "Minor injury during rehearsal. Stamina -<n>."]
      ELSE IF roll > PositiveAbove
        THEN IF self.player.role = "CEO"
               THEN LET bonus == randint(300, 900, u)
                        paid == [self EXCEPT !.company.money = @ + bonus]
                    IN  IF self.company.groups = <<>>
                          THEN [self |-> paid, ret |-> None]
                          ELSE [self |-> [paid EXCEPT
                                   !.company.groups[TopGroup(self.company.groups)].popularity =
                                      @ + (bonus \div 10)],
                                ret |-> "Viral moment! <name> trend boosts funds by <n>."]
               ELSE [self |-> [self EXCEPT !.company.trainees[c] =
                                 adjust_popularity(@, randint(8, 18, u))],
                     ret |-> "Fan edit goes viral. Popularity +<n>."]
      ELSE quiet

\* random_event: roll is random.random(), u the draw of the branch taken
random_event(self, roll, u) ==
  LET c == self.player.character
      quiet == [self |-> self, ret |-> None]
      positive ==
        IF roll > PositiveAbove
          THEN IF self.player.role = "CEO" /\ self.company.groups # <<>>
                 THEN LET bonus == randint(300, 900, u)
                          top == TopGroup(self.company.groups)
                      IN  [self |-> [self EXCEPT !.company.money = @ + bonus,
                                                 !.company.groups[top].popularity =
                                                    @ + (bonus \div 10)],
                           ret |-> "Viral moment! <name> trend boosts funds by <n>."]
               ELSE IF c # NoCharacter
                 THEN [self |-> [self EXCEPT !.company.trainees[c] =
                                   adjust_popularity(@, randint(8, 18, u))],
                       ret |-> "Fan edit goes viral. Popularity +<n>."]
               ELSE quiet
          ELSE quiet
  IN  IF roll < NegativeBelow
        THEN IF self.player.role = "CEO"
               THEN [self |-> [self EXCEPT !.company.money = @ - randint(200, 800, u)],
                     ret |-> "Unexpected venue cancellation. Lost <n> in fees."]
             ELSE IF c # NoCharacter
               THEN [self |-> [self EXCEPT !.company.trainees[c].stamina =
                                 Max(0, @ - randint(5, 15, u))],
                     ret |-> "Minor injury during rehearsal. Stamina -<n>."]
             ELSE positive
        ELSE positive

\*-------------------------------------------------------------------------
\* The session: main()'s loop over the GameState `state`
\*-------------------------------------------------------------------------
VARIABLES
  state,    \* main's GameState
  pc,       \* position in main's loop body: "choose", "event", "advance", "check",
            \* "done"; outside a session, what was called on `state`
  result,   \* main's local `result`: what the action handler returned
  event,    \* main's local `event`: what random_event returned
  verdict,  \* main's local `verdict`
  call,     \* the Company method the handler called this turn, and its cost
  book,     \* the inputs of the opening turns still to be played
  left      \* the open turns left after the opening

vars == <<state, pc, result, event, verdict, call, book, left>>

NoCall == [op |-> "none", cost |-> 0]

\*-------------------------------------------------------------------------
\* Inputs of a session.  A session starts with an opening, a fixed sequence
\* of menu choices with their typed inputs and draws, during which no random
\* event strikes; after it every choice, input and draw is open for
\* ActiveTurns turns.
\*-------------------------------------------------------------------------
Move(op, args) == [op |-> op, args |-> args]
Repeat(m, n) == [i \in 1..n |-> m]
UntilMonthEnd(used) == DaysPerMonth - ActiveTurns - used

CeoOpenings ==
  { <<>>,
    \* debut a group, then pass the days until the month is about to end
    <<Move("plan_debut", <<<<2, 3, 9>>, "Fresh", 100, 0, 0>>)>>
      \o Repeat(Move("rest", <<>>), UntilMonthEnd(1)),
    \* debut two groups of the same popularity (neither a top act) and spend
    \* the money down to 100
    <<Move("plan_debut", <<<<2, 3, 9>>, "Fresh", 2000, 0, 0>>),
      Move("plan_debut", <<<<2, 3, 9>>, "Fresh", 2000, 0, 0>>)>>
      \o Repeat(Move("recruit_trainee", <<"", 0, 0, 0>>), 3),
    \* debut the weakest group there can be
    <<Move("recruit_trainee", <<"", 0, 0, 0>>),
      Move("plan_debut", <<<<4>>, "Fresh", 100, 0, 0>>)>> }

TraineeOpenings ==
  { <<>>,
    \* pass the days until the month is about to end
    Repeat(Move("advance", <<>>), UntilMonthEnd(0)),
    \* train every day until the month is about to end
    Repeat(Move("train", <<"", 1, 1>>), UntilMonthEnd(0)),
    \* take part in an evaluation on each of the first two days
    Repeat(Move("evaluation", <<0>>), 2) }

Openings(role) == IF role = "CEO" THEN CeoOpenings ELSE TraineeOpenings

\* the inputs `args` of menu choice `op` are among those to explore now
Permits(op, args) ==
  IF book = <<>> THEN left > 0
  ELSE Head(book).op = op /\ Head(book).args = args

Choosing == pc = "choose"
CeoTurn == Choosing /\ state.player.role = "CEO"
TraineeTurn == Choosing /\ state.player.role # "CEO"

Init ==
  /\ \E name \in PlayerNames, role \in {"CEO", "Trainee"},
        sample \in StarterSamples, pops \in StarterDraws :
       /\ state = initialize_game(name, role, sample, pops)
       /\ book \in Openings(role)
  /\ left = ActiveTurns
  /\ pc = "choose"
  /\ result = None
  /\ event = None
  /\ verdict = None
  /\ call = NoCall

\* main, lines 531-536: the handler's result is appended to the log
Handled(gs, res, c) ==
  /\ state' = [gs EXCEPT !.message_log = Append(@, res)]
  /\ result' = res
  /\ call' = c
  /\ pc' = "event"
  /\ UNCHANGED <<event, verdict, book, left>>

DefaultRecruitName(n) == "Trainee" \o <<"1", "2", "3", "4", "5", "6", "7", "8", "9">>[n]

\* handle_ceo_action, choice 1
CeoRecruit ==
  /\ CeoTurn
  /\ \E typed \in RecruitNames \cup {""}, vocal, dance, rap \in Draws :
       /\ Permits("recruit_trainee", <<typed, vocal, dance, rap>>)
       /\ LET name == IF typed = ""
                        THEN DefaultRecruitName(Len(state.company.trainees) + 1)
                        ELSE typed
              r == recruit_trainee(state.company, name, vocal, dance, rap)
          IN  Handled([state EXCEPT !.company = r.self],
                      "Recruited <name>! Money now <n>.",
                      [op |-> "recruit_trainee", cost |-> RecruitCost])

\* handle_ceo_action, choice 2
CeoScheduleTraining ==
  /\ CeoTurn
  /\ IF state.company.trainees = <<>>
       THEN Permits("schedule_training", <<>>)
            /\ Handled(state, "No trainees available.", NoCall)
       ELSE \E t \in 1..Len(state.company.trainees), typed \in Focuses \cup {""},
               base_gain \in Draws, drain \in Draws :
              /\ Permits("schedule_training", <<t, typed, base_gain, drain>>)
              /\ LET focus == IF typed = "" THEN "vocal" ELSE typed
                     r == schedule_training(state.company, t, focus, base_gain, drain)
                 IN  Handled([state EXCEPT !.company = r.self], r.ret,
                             [op |-> "schedule_training", cost |-> TrainingCost])

\* handle_ceo_action, choice 3: the names of the picks that are roster positions
SelectedNames(roster, picks) ==
  LET valid == SelectSeq(picks, LAMBDA p : 0 <= p - 1 /\ p - 1 < Len(roster))
  IN  [k \in DOMAIN valid |-> roster[valid[k]].name]

CeoPlanDebut ==
  /\ CeoTurn
  /\ IF Len(state.company.trainees) < 1
       THEN Permits("plan_debut", <<>>)
            /\ Handled(state, "You need at least one trainee to debut.", NoCall)
       ELSE \E picks \in DebutPicks, concept \in Concepts, budget \in DebutBudgets,
               chemistry_bonus \in Draws, swing \in Draws :
              /\ Permits("plan_debut", <<picks, concept, budget, chemistry_bonus, swing>>)
              /\ LET names == SelectedNames(state.company.trainees, picks)
                     r == plan_debut(state.company, names, concept, budget,
                                     chemistry_bonus, swing)
                 IN  Handled([state EXCEPT !.company = r.self], r.ret,
                             [op |-> "plan_debut", cost |-> budget])

\* handle_ceo_action, choice 4
CeoReleaseSong ==
  /\ CeoTurn
  /\ IF state.company.groups = <<>>
       THEN Permits("release_song", <<>>)
            /\ Handled(state, "No groups have debuted yet.", NoCall)
       ELSE \E g \in 1..Len(state.company.groups), title \in Titles,
               budget \in ReleaseBudgets, chemistry_bonus \in Draws,
               roll \in Draws, critical_roll \in CriticalRolls :
              /\ Permits("release_song",
                         <<g, title, budget, chemistry_bonus, roll, critical_roll>>)
              /\ LET r == release_song(state.company, g, title, budget,
                                       chemistry_bonus, roll, critical_roll)
                 IN  Handled([state EXCEPT !.company = r.self], r.ret,
                             [op |-> "release_song", cost |-> budget])

\* handle_ceo_action, choice 5
CeoPromote ==
  /\ CeoTurn
  /\ IF state.company.groups = <<>>
       THEN Permits("promote", <<>>)
            /\ Handled(state, "No groups to promote.", NoCall)
       ELSE \E g \in 1..Len(state.company.groups), budget \in PromoBudgets,
               extra \in Draws :
              /\ Permits("promote", <<g, budget, extra>>)
              /\ LET r == promote(state.company, g, budget, extra)
                 IN  Handled([state EXCEPT !.company = r.self], r.ret,
                             [op |-> "promote", cost |-> budget])

\* handle_ceo_action, choice 6
CeoCheckFinances ==
  /\ CeoTurn
  /\ Permits("finances", <<>>)
  /\ Handled(state, "Money: <n>, Reputation: <n>. Trainees: <summary>", NoCall)

\* handle_ceo_action, choice 7
CeoRest ==
  /\ CeoTurn
  /\ Permits("rest", <<>>)
  /\ Handled(state, "Taking a breather to plan the next move.", NoCall)

\* handle_trainee_action: the player's trainee and the state with it replaced
Me == state.company.trainees[state.player.character]
WithMe(t) == [state EXCEPT !.company.trainees[state.player.character] = t]

\* handle_trainee_action, choice 1
TraineeTrain ==
  /\ TraineeTurn
  /\ IF state.player.character = NoCharacter
       THEN Permits("train", <<>>) /\ Handled(state, "No trainee data loaded.", NoCall)
       ELSE \E typed \in Focuses \cup {""},
               base_gain \in Draws, drain \in Draws :
              /\ Permits("train", <<typed, base_gain, drain>>)
              /\ LET focus == IF typed = "" THEN "dance" ELSE typed
                     r == train(Me, focus, base_gain, drain)
                 IN  Handled(WithMe(r.self), r.ret, NoCall)

\* handle_trainee_action, choice 2
TraineeRest ==
  /\ TraineeTurn
  /\ IF state.player.character = NoCharacter
       THEN Permits("rest", <<>>) /\ Handled(state, "No trainee data loaded.", NoCall)
       ELSE \E recovery \in Draws :
              /\ Permits("rest", <<recovery>>)
              /\ LET r == rest(Me, recovery)
                 IN  Handled(WithMe(r.self), r.ret, NoCall)

\* handle_trainee_action, choice 3
TraineeBuildRelationships ==
  /\ TraineeTurn
  /\ IF state.player.character = NoCharacter
       THEN Permits("relationships", <<>>)
            /\ Handled(state, "No trainee data loaded.", NoCall)
       ELSE \E u \in Draws :
              /\ Permits("relationships", <<u>>)
              /\ LET gain == randint(3, 10, u) IN
                 Handled(WithMe(adjust_popularity(adjust_relationship(Me, gain),
                                                  gain \div 2)),
                         "Shared practice room gossip. Relationship +<n>, Popularity +<n>.",
                         NoCall)

\* handle_trainee_action, choice 4
TraineeEvaluation ==
  /\ TraineeTurn
  /\ IF state.player.character = NoCharacter
       THEN Permits("evaluation", <<>>)
            /\ Handled(state, "No trainee data loaded.", NoCall)
       ELSE \E u \in Draws :
              /\ Permits("evaluation", <<u>>)
              /\ LET sc == score(Me) + randint(-10, 25, u)
                     threshold == SelfEvalBase + state.year * YearStep
                 IN  IF sc >= threshold
                       THEN Handled(WithMe(adjust_relationship(adjust_popularity(Me, 10), 5)),
                                    "Evaluation success! Score <n> / <n>. Popularity +10.",
                                    NoCall)
                       ELSE Handled([WithMe(adjust_relationship(Me, -5)) EXCEPT
                                       !.trainee_failures = @ + 1],
                                    "Evaluation tough. Score <n> / <n>. Failure count <n>.",
                                    NoCall)

\* handle_trainee_action, choice 5
TraineeViewStats ==
  /\ TraineeTurn
  /\ Permits("stats", <<>>)
  /\ IF state.player.character = NoCharacter
       THEN Handled(state, "No trainee data loaded.", NoCall)
       ELSE Handled(state, "Stats - <stats>", NoCall)

\* handle_trainee_action, choice 6
TraineeAdvanceDay ==
  /\ TraineeTurn
  /\ Permits("advance", <<>>)
  /\ IF state.player.character = NoCharacter
       THEN Handled(state, "No trainee data loaded.", NoCall)
       ELSE Handled(state, "Day passes while you reflect on your dreams.", NoCall)

\* main, lines 538-541; the turn's inputs are used up here
RandomEvent ==
  /\ pc = "event"
  /\ \E roll \in (IF book = <<>> THEN EventRolls ELSE {500}), u \in Draws :
       LET r == random_event(state, roll, u)
       IN  /\ state' = IF r.ret # None
                         THEN [r.self EXCEPT !.message_log = Append(@, r.ret)]
                         ELSE r.self
           /\ event' = r.ret
  /\ IF book = <<>> THEN book' = book /\ left' = left - 1
                    ELSE book' = Tail(book) /\ left' = left
  /\ pc' = "advance"
  /\ UNCHANGED <<result, verdict, call>>

\* main, line 543
AdvanceDay ==
  /\ pc = "advance"
  /\ \E u \in Draws : state' = advance_day(state, u)
  /\ pc' = "check"
  /\ UNCHANGED <<result, event, verdict, call, book, left>>

\* main, lines 544-549
CheckVerdict ==
  /\ pc = "check"
  /\ verdict' = check_victory_or_defeat(state)
  /\ pc' = IF verdict' # None THEN "done" ELSE "choose"
  /\ UNCHANGED <<state, result, event, call, book, left>>

Next ==
  \/ CeoRecruit
  \/ CeoScheduleTraining
  \/ CeoPlanDebut
  \/ CeoReleaseSong
  \/ CeoPromote
  \/ CeoCheckFinances
  \/ CeoRest
  \/ TraineeTrain
  \/ TraineeRest
  \/ TraineeBuildRelationships
  \/ TraineeEvaluation
  \/ TraineeViewStats
  \/ TraineeAdvanceDay
  \/ RandomEvent
  \/ AdvanceDay
  \/ CheckVerdict

Spec == Init /\ [][Next]_vars

\*-------------------------------------------------------------------------
\* The clock alone: advance_day called again and again on the GameState
\* initialize_game returns
\*-------------------------------------------------------------------------
InitClock ==
  /\ \E name \in PlayerNames, role \in {"CEO", "Trainee"},
        sample \in StarterSamples, pops \in StarterDraws :
       state = initialize_game(name, role, sample, pops)
  /\ pc = "clock"
  /\ result = None
  /\ event = None
  /\ verdict = None
  /\ call = NoCall
  /\ book = <<>>
  /\ left = 0

ClockTick ==
  /\ pc = "clock"
  /\ state.year <= MaxYear
  /\ \E u \in Draws : state' = advance_day(state, u)
  /\ UNCHANGED <<pc, result, event, verdict, call, book, left>>

NextClock == ClockTick

SpecClock == InitClock /\ [][NextClock]_vars

\*-------------------------------------------------------------------------
\* GameState methods called once on a GameState drawn from bounded sets
\*-------------------------------------------------------------------------
UnitYears == {1, LastYear, LastYear + 1}
UnitMonths == {1, MonthsPerYear}
UnitDays == {1, DaysPerMonth}
UnitMoney == {0 - BankruptcyLimit - 1, 0 - BankruptcyLimit, 0, StartMoney}
UnitReputation == {LegendReputation - 1, LegendReputation}
\* the popularity of the company's groups
UnitGroups == {<<>>, <<TopActPopularity - 1>>, <<TopActPopularity>>,
               <<24, TopActPopularity>>}
\* the player's vocal skill: with the other four skills as initialize_game
\* sets them, the score is 135 more
UnitVocal == {35, 84, 85, 94, 95, SensationScore - 136, SensationScore - 135}
UnitPopularity == {10, LateBloomerPopularity - 1, LateBloomerPopularity,
                   SensationPopularity - 1, SensationPopularity}
UnitRelationship == {0, 4, 10, 96, 100}
UnitFailures == {0, MaxFailures - 1, MaxFailures}

UnitGroup(pop) ==
  [name |-> "Project Fresh", members |-> <<1>>, concept |-> "Fresh", popularity |-> pop]

UnitCeoStates ==
  LET base == initialize_game("", "CEO", <<"Ara", "Min", "Jisu">>, <<0, 1, 0>>)
  IN  { [base EXCEPT !.year = y, !.month = m, !.day = d,
                     !.company.money = money, !.company.reputation = rep,
                     !.company.groups = [i \in DOMAIN pops |-> UnitGroup(pops[i])]] :
          y \in UnitYears, m \in UnitMonths, d \in UnitDays, money \in UnitMoney,
          rep \in UnitReputation, pops \in UnitGroups }

UnitTraineeStates ==
  LET base == initialize_game("", "Trainee", <<"Ara", "Min", "Jisu">>, <<0, 1, 0>>)
      c == base.player.character
  IN  { [base EXCEPT !.year = y, !.month = m, !.day = d, !.trainee_failures = f,
                     !.company.trainees[c].vocal = v,
                     !.company.trainees[c].popularity = p,
                     !.company.trainees[c].relationship = r] :
          y \in UnitYears, m \in UnitMonths, d \in UnitDays, f \in UnitFailures,
          v \in UnitVocal, p \in UnitPopularity, r \in UnitRelationship }

InitUnit ==
  /\ state \in UnitCeoStates \cup UnitTraineeStates
  /\ pc = "unit"
  /\ result = None
  /\ event = None
  /\ verdict = None
  /\ call = NoCall
  /\ book = <<>>
  /\ left = 0

UnitCheck ==
  /\ pc = "unit"
  /\ verdict' = check_victory_or_defeat(state)
  /\ pc' = "checked"
  /\ UNCHANGED <<state, result, event, call, book, left>>

UnitAdvance ==
  /\ pc = "unit"
  /\ \E u \in Draws : state' = advance_day(state, u)
  /\ pc' = "advanced"
  /\ UNCHANGED <<result, event, verdict, call, book, left>>

NextUnit == UnitCheck \/ UnitAdvance

SpecUnit == InitUnit /\ [][NextUnit]_vars


\*-------------------------------------------------------------------------
\* The session played to the end of its last year: the main loop from the
\* GameState that initialize_game returns and an uneventful opening, which
\* lasts until the last turns of year LastYear, lead to
\*-------------------------------------------------------------------------
\* the turn whose advance_day call ends year LastYear
LastTurn == LastYear * MonthsPerYear * DaysPerMonth

\* one turn of main without a random event: the handler's result is appended
\* to the log, then advance_day
QuietTurn(gs, res) ==
  advance_day([gs EXCEPT !.message_log = Append(@, res)], 0)

\* a CEO's turn of menu choice 7: a CEO who forms no group neither earns nor
\* spends
RestTurn(gs) == QuietTurn(gs, "Taking a breather to plan the next move.")

\* a trainee's turn of menu choice 3 with the highest draw: a trainee who
\* never trains passes the monthly evaluations on popularity alone and never
\* reaches the score of a sensation
GossipTurn(gs) ==
  LET c == gs.player.character
      gain == randint(3, 10, 1)
  IN  QuietTurn([gs EXCEPT !.company.trainees[c] =
                   adjust_popularity(adjust_relationship(@, gain), gain \div 2)],
                "Shared practice room gossip. Relationship +<n>, Popularity +<n>.")

RECURSIVE Played(_, _)
\* the GameState after n such turns, or at the turn after which
\* check_victory_or_defeat returned a verdict and main left the loop
Played(gs, n) ==
  IF n = 0 \/ check_victory_or_defeat(gs) # None THEN gs
  ELSE IF n = 1 THEN (IF gs.player.role = "CEO" THEN RestTurn(gs) ELSE GossipTurn(gs))
  ELSE Played(Played(gs, n \div 2), n - (n \div 2))

InitLong ==
  /\ \E name \in PlayerNames, role \in {"CEO", "Trainee"},
        sample \in StarterSamples, pops \in StarterDraws :
       state = Played(initialize_game(name, role, sample, pops),
                      LastTurn - ActiveTurns)
  \* the loop goes on
  /\ check_victory_or_defeat(state) = None
  /\ book = <<>>
  /\ left = ActiveTurns
  /\ pc = "choose"
  /\ result = None
  /\ event = None
  /\ verdict = None
  /\ call = NoCall

SpecLong == InitLong /\ [][Next]_vars
\*-------------------------------------------------------------------------
\* Properties
\*-------------------------------------------------------------------------
Roster == state.company.trainees
Groups == state.company.groups
Log == state.message_log

CompanyMethods == {"recruit_trainee", "schedule_training", "plan_debut",
                   "release_song", "promote"}

\* C1: a Company action method called with money < its cost (300 for
\* recruit_trainee, 150 for schedule_training, the budget for plan_debut,
\* release_song and promote) mutates nothing: the company (money, reputation,
\* trainees, groups, projects) is as before.
C1_UnaffordableActionMutatesNothing ==
  [][ (pc = "choose" /\ call'.op \in CompanyMethods
         /\ state.company.money < call'.cost)
      => state'.company = state.company ]_vars

\* C2: schedule_training called with money < 150 returns exactly "Not enough
\* money for training." and leaves the company's money and every trainee
\* (skills and stamina included) unchanged.
C2_UnaffordableTraining ==
  [][ (pc = "choose" /\ call'.op = "schedule_training"
         /\ state.company.money < TrainingCost)
      => /\ result' = "Not enough money for training."
         /\ state'.company.money = state.company.money
         /\ state'.company.trainees = state.company.trainees ]_vars

\* schedule_training has just been called by a company that cannot pay it
C2_Witness ==
  /\ pc = "event"
  /\ call.op = "schedule_training"
  /\ state.company.money < TrainingCost
  /\ result = "Not enough money for training."

C4_GroupPopularity ==
  state.player.role = "CEO" => \A g \in DOMAIN Groups : Groups[g].popularity >= 0

\* the weakest group there can be (one recruit of the lowest skills, debuted
\* on the lowest budget and draws) has released a song on the lowest budget
\* and draws: its popularity is 24 + 31
C4_Witness ==
  /\ state.player.role = "CEO"
  /\ Len(state.company.projects) = 1
  /\ \E g \in DOMAIN Groups :
       /\ Groups[g].members = <<4>>
       /\ score(Roster[4]) = 120
       /\ Groups[g].popularity = 55

\* C5: after any number of advance_day calls from the initial state, day is
\* in [1,30], month in [1,12], year >= 1, and the year never decreases.
C5_Calendar ==
  /\ [](state.day \in 1..DaysPerMonth /\ state.month \in 1..MonthsPerYear
          /\ state.year >= 1)
  /\ [][state'.year >= state.year]_vars

\* the year has turned
C5_Witness == state.year = 2 /\ state.month = 1 /\ state.day = 1

EvaluationMessages ==
  {"Monthly evaluation passed! Score <n> / <n>. Relationship +5.",
   "Evaluation failed. Score <n> / <n>. Relationship -<n>.",
   "Monthly income report: earned <n> from active groups."}

\* C6: advance_day appends exactly one monthly_evaluation message on each
\* call that rolls the day from 30 to 1 (the call that turns the year
\* included) and nothing on any other call; 30 calls from day 1 of month 1
\* end at day 1 of month 2 with exactly one message in the log.
C6_EvaluationAppended ==
  /\ [][ IF state.day = DaysPerMonth
           THEN /\ state'.day = 1
                /\ \E m \in EvaluationMessages : state'.message_log = Append(Log, m)
           ELSE /\ state'.day = state.day + 1
                /\ state'.message_log = Log ]_vars
  /\ []((state.year = 1 /\ state.month = 2 /\ state.day = 1) => Len(Log) = 1)

\* the call that turned the year appended the twelfth evaluation message
C6_Witness ==
  /\ state.year = 2 /\ state.month = 1 /\ state.day = 1
  /\ Len(Log) = MonthsPerYear
  /\ Log[MonthsPerYear] \in EvaluationMessages

\* C7: for a CEO, check_victory_or_defeat returns the verdict of the first
\* condition that holds among money < -2000, some group popularity >= 300,
\* year > 5 (by reputation < 80), and None if none holds.
C7_CeoVerdict ==
  (pc = "checked" /\ state.player.role = "CEO") =>
    LET bankrupt == state.company.money < -2000
        hit == \E g \in DOMAIN Groups : Groups[g].popularity >= 300
        late == state.year > 5
    IN  /\ bankrupt => verdict = "Bankruptcy! Your company could not pay its bills."
        /\ (~bankrupt /\ hit) => verdict = "Success! One of your groups became a top act."
        /\ (~bankrupt /\ ~hit /\ late /\ state.company.reputation < 80) =>
             verdict = "Time's up. The industry moved on before you produced a hit."
        /\ (~bankrupt /\ ~hit /\ late /\ state.company.reputation >= 80) =>
             verdict = "Legendary CEO!"
        /\ (~bankrupt /\ ~hit /\ ~late) => verdict = None

\* a bankrupt CEO with a top act after the last year is told of the bankruptcy
C7_Witness ==
  /\ pc = "checked" /\ state.player.role = "CEO"
  /\ state.company.money < -2000
  /\ \E g \in DOMAIN Groups : Groups[g].popularity >= 300
  /\ state.year > 5
  /\ state.company.reputation >= 80
  /\ verdict = "Bankruptcy! Your company could not pay its bills."

\* C8: for a Trainee, check_victory_or_defeat returns the verdict of the first
\* condition that holds among popularity >= 200 and score >= 350,
\* trainee_failures >= 3, year > 5 (by popularity < 150), and None if none
\* holds.
C8_TraineeVerdict ==
  (pc = "checked" /\ state.player.role = "Trainee") =>
    LET me == Roster[state.player.character]
        skills == me.vocal + me.dance + me.rap + me.visual + me.charisma
        sensation == me.popularity >= 200 /\ skills >= 350
        cut == state.trainee_failures >= 3
        late == state.year > 5
    IN  /\ sensation => verdict = "You debuted and became a sensation!"
        /\ (~sensation /\ cut) =>
             verdict = "You were cut after repeated failed evaluations."
        /\ (~sensation /\ ~cut /\ late /\ me.popularity < 150) =>
             verdict = "The window closed before you could debut."
        /\ (~sensation /\ ~cut /\ late /\ me.popularity >= 150) =>
             verdict = "Late bloomer debut success!"
        /\ (~sensation /\ ~cut /\ ~late) => verdict = None

\* a trainee of popularity 200 and score 350 with three failures after the
\* last year, told of the win
C8_Witness ==
  /\ pc = "checked" /\ state.player.role = "Trainee"
  /\ Roster[state.player.character].popularity = 200
  /\ score(Roster[state.player.character]) = 350
  /\ state.trainee_failures >= 3
  /\ state.year > 5
  /\ verdict = "You debuted and became a sensation!"

\* the player's trainee before and after a step
MeBefore == state.company.trainees[state.player.character]
MeAfter == state'.company.trainees[state.player.character]

SameSkillsAndStamina(a, b) ==
  /\ a.vocal = b.vocal /\ a.dance = b.dance /\ a.rap = b.rap
  /\ a.visual = b.visual /\ a.charisma = b.charisma
  /\ a.stamina = b.stamina

\* C9: in Trainee mode the monthly evaluation made by an advance_day call
\* compares score() + popularity with 220 + 10*year, the year taken after
\* the call's year increment.  Passed: relationship +5 (capped at 100),
\* popularity +5, trainee_failures unchanged.  Failed: trainee_failures +1,
\* relationship down by 5 to 10 (floored at 0), popularity unchanged.  Either
\* way the skills, the stamina and the company's money are unchanged.
C9_MonthlyEvaluation ==
  [][ (pc = "unit" /\ pc' = "advanced" /\ state.player.role = "Trainee"
         /\ state.day = 30)
      => LET total == MeBefore.vocal + MeBefore.dance + MeBefore.rap
                        + MeBefore.visual + MeBefore.charisma + MeBefore.popularity
             threshold == 220 + 10 * state'.year
         IN  /\ IF total >= threshold
                  THEN /\ MeAfter.relationship = Min(100, MeBefore.relationship + 5)
                       /\ MeAfter.popularity = MeBefore.popularity + 5
                       /\ state'.trainee_failures = state.trainee_failures
                  ELSE /\ state'.trainee_failures = state.trainee_failures + 1
                       /\ \E fall \in 5..10 :
                            MeAfter.relationship = Max(0, MeBefore.relationship - fall)
                       /\ MeAfter.popularity = MeBefore.popularity
             /\ SameSkillsAndStamina(MeBefore, MeAfter)
             /\ state'.company.money = state.company.money ]_vars

\* the call that turned year 1 into year 2 failed a trainee whose total of
\* 230 would have passed the threshold of year 1
C9_Witness ==
  /\ pc = "advanced" /\ state.player.role = "Trainee"
  /\ state.year = 2 /\ state.month = 1 /\ state.day = 1
  /\ score(Roster[state.player.character])
       + Roster[state.player.character].popularity = 230
  /\ state.trainee_failures = 1

\* the first group of highest popularity, found by position
FirstTop(groups) ==
  LET best == CHOOSE p \in {groups[i].popularity : i \in DOMAIN groups} :
                \A i \in DOMAIN groups : groups[i].popularity <= p
      tops == {i \in DOMAIN groups : groups[i].popularity = best}
  IN  CHOOSE i \in tops : \A j \in tops : i <= j

\* C10: a turn's random_event applies at most one of its branches and at most
\* one event message is appended to the log; when it returns no message the
\* state is unchanged; when it returns a message for a CEO, either the money
\* falls by a loss in [200,800] and nothing else changes, or the money rises
\* by a gain in [300,900] and the first group of highest popularity gains
\* gain // 10 popularity.
C10_RandomEvent ==
  [][ pc = "event" =>
        LET co == state.company
            delta == state'.company.money - co.money
        IN  /\ event' = None => state' = state
            /\ event' # None => state'.message_log = Append(Log, event')
            /\ (event' # None /\ state.player.role = "CEO") =>
                 \/ /\ (0 - delta) \in 200..800
                    /\ state'.company = [co EXCEPT !.money = @ + delta]
                 \/ /\ delta \in 300..900
                    /\ co.groups # <<>>
                    /\ state'.company =
                         [co EXCEPT !.money = @ + delta,
                                    !.groups[FirstTop(co.groups)].popularity =
                                       @ + (delta \div 10)]
            /\ (event' # None /\ state.player.role = "Trainee") =>
                 \/ /\ MeAfter.stamina <= MeBefore.stamina
                    /\ state'.company = [co EXCEPT
                         !.trainees[state.player.character].stamina = MeAfter.stamina]
                 \/ /\ MeAfter.popularity > MeBefore.popularity
                    /\ state'.company = [co EXCEPT
                         !.trainees[state.player.character].popularity =
                            MeAfter.popularity] ]_vars

\* a viral moment has struck a CEO whose two groups were of the same
\* popularity: the first one has gained the tenth of the bonus
C10_Witness ==
  /\ pc = "advance" /\ state.player.role = "CEO"
  /\ event = "Viral moment! <name> trend boosts funds by <n>."
  /\ result = "Taking a breather to plan the next move."
  /\ Len(Groups) = 2
  /\ Groups[1].popularity - Groups[2].popularity \in {30, 90}

\*-------------------------------------------------------------------------
\* The failure count of a Trainee session
\*-------------------------------------------------------------------------
\* the month rollovers and the completed turns of a session that began on
\* day 1 of month 1 of year 1, read off the calendar
Rollovers == (state.year - 1) * MonthsPerYear + (state.month - 1)
Turns == Rollovers * DaysPerMonth + (state.day - 1)
\* the calls of the action handler so far: one per completed turn and the
\* one of the turn in progress
HandlerCalls == Turns + (IF pc \in {"event", "advance"} THEN 1 ELSE 0)

CutVerdict == "You were cut after repeated failed evaluations."

\* C11 as stated: in a Trainee session trainee_failures changes only in the
\* advance_day call that rolls the month over, by exactly 1, and never
\* decreases; in every reachable state it is at most the number of month
\* rollovers so far, and the "cut" verdict is not returned before the third
\* month rollover.
C11_FailuresOnlyByMonthlyEvaluation ==
  /\ [][ state.player.role = "Trainee" =>
           \/ state'.trainee_failures = state.trainee_failures
           \/ /\ state'.trainee_failures = state.trainee_failures + 1
              /\ pc = "advance"
              /\ state'.month # state.month ]_vars
  /\ [](state.player.role = "Trainee" =>
          /\ state.trainee_failures <= Rollovers
          /\ (verdict = CutVerdict => Rollovers >= 3))

\* C11 amended: in a Trainee session trainee_failures is incremented only by
\* a failed monthly evaluation or by a failed "Participate in evaluation"
\* action (menu choice 4), by exactly 1 each time, and never decreases; in
\* every reachable state it is at most the number of month rollovers plus
\* the number of handler calls so far, and the "cut" verdict is not returned
\* before the third turn.
C11_FailuresByEitherEvaluation ==
  /\ [][ state.player.role = "Trainee" =>
           \/ state'.trainee_failures = state.trainee_failures
           \/ /\ state'.trainee_failures = state.trainee_failures + 1
              /\ \/ /\ pc = "advance"
                    /\ state'.month # state.month
                    /\ state'.message_log =
                         Append(Log, "Evaluation failed. Score <n> / <n>. Relationship -<n>.")
                 \/ /\ pc = "choose"
                    /\ result' = "Evaluation tough. Score <n> / <n>. Failure count <n>." ]_vars
  /\ [](state.player.role = "Trainee" =>
          /\ state.trainee_failures >= 0
          /\ state.trainee_failures <= Rollovers + HandlerCalls
          /\ (verdict = CutVerdict => Turns >= 3))

\* the trainee who failed the evaluation they took part in on each of the
\* first three days is cut at the end of the third turn, before any month
\* has rolled over
C11_Witness ==
  /\ state.player.role = "Trainee"
  /\ verdict = CutVerdict
  /\ Turns = 3 /\ Rollovers = 0
  /\ state.trainee_failures = 3

\*-------------------------------------------------------------------------
\* The end of the session
\*-------------------------------------------------------------------------
Verdicts ==
  { "Bankruptcy! Your company could not pay its bills.",
    "Success! One of your groups became a top act.",
    "Time's up. The industry moved on before you produced a hit.",
    "Legendary CEO!",
    "You debuted and became a sensation!",
    "You were cut after repeated failed evaluations.",
    "The window closed before you could debut.",
    "Late bloomer debut success!" }

\* C12: for either role the main loop's check_victory_or_defeat returns a
\* verdict no later than the turn whose advance_day makes the year 6, the
\* 1800th turn: no turn begins, and no handler, random event or advance_day
\* runs, in a year after 5, so the year never exceeds 6; the check made in
\* year 6 returns a verdict and ends the loop.
C12_VerdictByYearSix ==
  /\ state.year <= 6
  /\ Turns <= 1800
  /\ pc \in {"choose", "event", "advance"} => state.year <= 5 /\ verdict = None
  /\ pc = "done" <=> verdict # None
  /\ verdict # None => verdict \in Verdicts
  /\ (pc = "done" /\ state.year > 5) => Turns = 1800

\* the 1800th turn of a CEO made the year 6 and the loop ended with the
\* verdict of the year limit
C12_Witness ==
  /\ pc = "done"
  /\ state.player.role = "CEO"
  /\ state.year = 6 /\ state.month = 1 /\ state.day = 1
  /\ verdict = "Time's up. The industry moved on before you produced a hit."
=============================================================================
